---- MODULE Spec2Model ----
(***************************************************************************)
(* Store-monitoring uptime engine (src/src/store_monitor/calculation.py)   *)
(* and the report API around it (api.py, database.py).                     *)
(*                                                                         *)
(* Instants are integers: ticks since Monday 00:00:00 UTC of week 0.       *)
(* A datetime is its instant; a datetime.time is its tick within the day.  *)
(* pytz.utc.localize of a naive datetime keeps the instant, so naive and   *)
(* aware datetimes are the same integer. The float totals only ever grow   *)
(* by 1.0 and are integers here.                                           *)
(***************************************************************************)
EXTENDS Integers, Sequences, FiniteSets

VARIABLES
    store_timezone_str,  \* Store.timezone_str of the store being reported
    hours_query,         \* BusinessHour rows of the store, as .all() returns them
    db_polls,            \* StoreStatusPoll rows of the store (a set of rows)
    reference_time_utc,  \* the reference instant handed to the report
    business_hours_map,  \* generate_report_data_for_store: business_hours_map
    polls,               \* the poll list handed to calculate_store_uptime_for_period
    pc,                  \* position of the caller
    frame,               \* activations of calculate_store_uptime_for_period
    report,              \* the dict generate_report_data_for_store returns
    window,              \* <<start, end>> of a direct call of the period function
    local_dt,            \* argument of a direct is_store_open call
    is_open,             \* its return value
    MAX_TIMESTAMP_UTC,   \* api.py: <<the reference instant>>, <<>> for None
    reports,             \* the committed rows of the reports table, by id
    trigger,             \* activations of trigger_report, by the report_id drawn
    task_queue,          \* report_ids of the tasks dispatched and not yet taken
    worker,              \* position of the worker on the task of each report_id
    files,               \* paths that are files on disk
    response             \* the last get_report call: what it read and answered

engineVars == <<store_timezone_str, hours_query, db_polls, reference_time_utc,
                business_hours_map, polls, pc, frame, report, window,
                local_dt, is_open>>

apiVars == <<MAX_TIMESTAMP_UTC, reports, trigger, task_queue, worker, files,
             response>>

vars == <<store_timezone_str, hours_query, db_polls, reference_time_utc,
          business_hours_map, polls, pc, frame, report, window, local_dt,
          is_open, apiVars>>

----------------------------------------------------------------------------
(* Bounds of the model *)

\* resolution of an instant: ticks per minute (datetime has 60 000 000)
TicksPerMinute == 2
\* longest poll list of a direct call / most poll rows of a store
MaxPolls == 2
\* longest window, in 1-minute buckets, of a direct call
MaxWindow == 3

(* Units of datetime / timedelta *)
MinutesPerHour == 60
HoursPerDay == 24
DaysPerWeek == 7
POLL_FETCH_BUFFER_HOURS == 1

Minute == TicksPerMinute
Hour == MinutesPerHour * Minute
Day == HoursPerDay * Hour
Week == DaysPerWeek * Day

DEFAULT_TIMEZONE == "America/Chicago"
\* mutant: a store counts as up until its first poll
DefaultStatusActive == "active"
DEFAULT_STORE_STATUS == "inactive"

\* the report_ids uuid4 draws in the model, one per trigger_report call
ReportIds == {"r1", "r2"}

\* a table without rows
NoRows == [i \in {} |-> "none"]

IdleTrigger == [pc |-> "idle", db_session |-> NoRows, raised |-> "none",
                status_code |-> 0]

NoResponse == [report_id |-> "none", client_has_id |-> FALSE,
               found |-> FALSE, status |-> "none", file_path |-> "none",
               isfile |-> FALSE, status_code |-> 0, content |-> "none"]

\* the API before any request
ApiIdle ==
    /\ MAX_TIMESTAMP_UTC = <<>>
    /\ reports = NoRows
    /\ trigger = [r \in ReportIds |-> IdleTrigger]
    /\ task_queue = {}
    /\ worker = [r \in ReportIds |-> "idle"]
    /\ files = {}
    /\ response = NoResponse

\* datetime.time.min and datetime.time.max: first and last instant of a day
time_min == 0
time_max == Day - 1

\* time(h, m) of a day
TimeOfDay(h, m) == (h * MinutesPerHour + m) * Minute
\* the instant of weekday d (0 = Monday), h:m, in week w
At(w, d, h, m) == w * Week + d * Day + TimeOfDay(h, m)

----------------------------------------------------------------------------
(* pytz *)

KnownZones == {"America/Chicago", "Asia/Kolkata"}

\* pytz.timezone(name): the zone, or UnknownTimeZoneError
pytz_timezone(name) ==
    IF name \in KnownZones THEN name ELSE "UnknownTimeZoneError"

\* America/Chicago leaves standard time on a Sunday at 08:00 UTC; in the model
\* that Sunday is the one of week 3
DstStart == At(3, 6, 8, 0)

\* utcoffset of a zone at a UTC instant
utcoffset(zone, utc) ==
    CASE zone = "America/Chicago" ->
            IF utc < DstStart THEN -(6 * Hour) ELSE -(5 * Hour)
      [] zone = "Asia/Kolkata" -> 5 * Hour + 30 * Minute
      [] OTHER -> 0

\* dt.astimezone(zone): the local wall-clock instant
astimezone(utc, zone) == utc + utcoffset(zone, utc)

\* local_dt.weekday() and local_dt.time()
weekday(dt) == (dt \div Day) % DaysPerWeek
timeof(dt) == dt % Day

----------------------------------------------------------------------------
(* get_business_hours_for_store *)

RECURSIVE RowsOfDay(_, _)
RowsOfDay(rows, day) ==
    IF rows = <<>> THEN <<>>
    ELSE LET bh == Head(rows)
             rest == RowsOfDay(Tail(rows), day)
         IN IF bh.day_of_week = day
            THEN <<(<<bh.start_time_local, bh.end_time_local>>)>> \o rest
            ELSE rest

\* mutant: a store without rows gets an empty map instead of 24/7
get_business_hours_no_default(rows) ==
    [day \in 0..(DaysPerWeek - 1) |-> RowsOfDay(rows, day)]

get_business_hours_for_store(rows) ==
    IF rows = <<>>
    THEN [day \in 0..(DaysPerWeek - 1) |-> <<(<<time_min, time_max>>)>>]
    ELSE [day \in 0..(DaysPerWeek - 1) |-> RowsOfDay(rows, day)]

(* is_store_open *)

\* mutant: the opening instant itself is still closed
OpenTodayAfterStart(current_time, todays) ==
    \E i \in 1..Len(todays) :
        LET start_time == todays[i][1]
            end_time == todays[i][2]
        IN \/ start_time = time_min /\ end_time = time_max
           \/ start_time <= end_time /\ start_time < current_time
                                     /\ current_time < end_time
           \/ start_time > end_time /\ start_time < current_time

\* first loop: the rows of the local day
OpenToday(current_time, todays) ==
    \E i \in 1..Len(todays) :
        LET start_time == todays[i][1]
            end_time == todays[i][2]
        IN \/ start_time = time_min /\ end_time = time_max
           \/ start_time <= end_time /\ start_time <= current_time
                                     /\ current_time < end_time
           \/ start_time > end_time /\ start_time <= current_time

\* second loop: the overnight rows of the previous local day
OpenFromPrevDay(current_time, prevs) ==
    \E i \in 1..Len(prevs) :
        LET start_time == prevs[i][1]
            end_time == prevs[i][2]
        IN start_time > end_time /\ current_time < end_time

\* mutant: the overnight rows of the previous day are not looked at
is_store_open_today_only(dt, hours_map) ==
    OpenToday(timeof(dt), hours_map[weekday(dt)])

is_store_open(dt, hours_map) ==
    LET day_of_week == weekday(dt)
        current_time == timeof(dt)
        prev_day_of_week == (day_of_week - 1 + DaysPerWeek) % DaysPerWeek
    IN \/ OpenToday(current_time, hours_map[day_of_week])
       \/ OpenFromPrevDay(current_time, hours_map[prev_day_of_week])

----------------------------------------------------------------------------
(* get_status_at_time *)

\* the for loop from poll i on: the status it ends with and the number of
\* polls it looked at (the poll it breaks on included)
RECURSIVE ScanPolls(_, _, _, _, _)
ScanPolls(target_utc_dt, ps, i, last_known_status, looked) ==
    IF i > Len(ps) THEN [status |-> last_known_status, examined |-> looked]
    ELSE IF ps[i].timestamp_utc <= target_utc_dt
         THEN ScanPolls(target_utc_dt, ps, i + 1, ps[i].status, looked + 1)
         ELSE [status |-> last_known_status, examined |-> looked + 1]

\* mutant: a poll taken exactly at the target instant is not yet seen
RECURSIVE ScanPollsStrict(_, _, _, _)
ScanPollsStrict(target_utc_dt, ps, i, last_known_status) ==
    IF i > Len(ps) THEN last_known_status
    ELSE IF ps[i].timestamp_utc < target_utc_dt
         THEN ScanPollsStrict(target_utc_dt, ps, i + 1, ps[i].status)
         ELSE last_known_status

\* mutant: of several polls with one timestamp the first listed is kept
RECURSIVE ScanPollsKeepFirst(_, _, _, _)
ScanPollsKeepFirst(target_utc_dt, ps, i, last_known_status) ==
    IF i > Len(ps) THEN last_known_status
    ELSE IF ps[i].timestamp_utc <= target_utc_dt
         THEN ScanPollsKeepFirst(target_utc_dt, ps, i + 1,
                 IF i > 1 /\ ps[i - 1].timestamp_utc = ps[i].timestamp_utc
                 THEN last_known_status ELSE ps[i].status)
         ELSE last_known_status

get_status_at_time_keep_first(target_utc_dt, ps) ==
    ScanPollsKeepFirst(target_utc_dt, ps, 1, DEFAULT_STORE_STATUS)

get_status_at_time_strict(target_utc_dt, ps) ==
    ScanPollsStrict(target_utc_dt, ps, 1, DEFAULT_STORE_STATUS)

get_status_at_time(target_utc_dt, ps) ==
    ScanPolls(target_utc_dt, ps, 1, DEFAULT_STORE_STATUS, 0).status

\* polls one get_status_at_time call iterates over
PollsExamined(target_utc_dt, ps) ==
    ScanPolls(target_utc_dt, ps, 1, DEFAULT_STORE_STATUS, 0).examined

----------------------------------------------------------------------------
(* calculate_store_uptime_for_period: one activation is a record of its    *)
(* locals; the poll list and the hours map are the caller's objects        *)

\* mutant: an unknown name falls back to UTC
ResolveStoreTzUtc(tzstr) ==
    IF pytz_timezone(tzstr) = "UnknownTimeZoneError"
    THEN "UTC"
    ELSE pytz_timezone(tzstr)

\* the try/except around pytz.timezone
ResolveStoreTz(tzstr) ==
    IF pytz_timezone(tzstr) = "UnknownTimeZoneError"
    THEN pytz_timezone(DEFAULT_TIMEZONE)
    ELSE pytz_timezone(tzstr)

IdleFrame ==
    [pc |-> "idle", interval_start_utc |-> 0, interval_end_utc |-> 0,
     store_tz |-> "none", current_minute_utc |-> 0,
     uptime_minutes |-> 0, downtime_minutes |-> 0, polls_examined |-> 0]

\* the locals when the while loop is reached
EnterCall(c, tzstr, start_utc, end_utc) ==
    [pc |-> "loop", interval_start_utc |-> start_utc,
     interval_end_utc |-> end_utc, store_tz |-> ResolveStoreTz(tzstr),
     current_minute_utc |-> start_utc,
     uptime_minutes |-> 0, downtime_minutes |-> 0, polls_examined |-> 0]

\* mutant: the bucket that starts at the end of the window is scanned too
LoopCondInclusive(f) == f.current_minute_utc <= f.interval_end_utc

\* the while condition
LoopCond(f) == f.current_minute_utc < f.interval_end_utc

\* mutant: a closed bucket is counted as downtime
LoopBodyCountsClosed(f, ps, hours_map) ==
    LET current_status == get_status_at_time(f.current_minute_utc, ps)
    IN [locals |->
          [f EXCEPT !.uptime_minutes =
                        IF current_status = "active" THEN @ + 1 ELSE @,
                    !.downtime_minutes =
                        IF current_status # "active" THEN @ + 1 ELSE @,
                    !.current_minute_utc = @ + Minute],
        polls |-> ps]

\* mutant: the scan drops from the caller's list the polls it has passed
LoopBodyConsumesPolls(f, ps, hours_map) ==
    LET dt == astimezone(f.current_minute_utc, f.store_tz)
        open == is_store_open(dt, hours_map)
        current_status == get_status_at_time(f.current_minute_utc, ps)
        up == open /\ current_status = "active"
        down == open /\ current_status # "active"
        passed(p) == p.timestamp_utc > f.current_minute_utc
    IN [locals |->
          [f EXCEPT !.uptime_minutes = IF up THEN @ + 1 ELSE @,
                    !.downtime_minutes = IF down THEN @ + 1 ELSE @,
                    !.current_minute_utc = @ + Minute],
        polls |-> SelectSeq(ps, passed)]

\* one iteration of the while loop: the activation's locals after it and the
\* caller's poll list after it (the loop only reads the list)
LoopBody(f, ps, hours_map) ==
    LET dt == astimezone(f.current_minute_utc, f.store_tz)
        open == is_store_open(dt, hours_map)
        current_status == get_status_at_time(f.current_minute_utc, ps)
        up == open /\ current_status = "active"
        down == open /\ current_status # "active"
    IN [locals |->
          [f EXCEPT !.uptime_minutes = IF up THEN @ + 1 ELSE @,
                    !.downtime_minutes = IF down THEN @ + 1 ELSE @,
                    !.polls_examined =
                        IF open THEN @ + PollsExamined(f.current_minute_utc, ps)
                        ELSE @,
                    !.current_minute_utc = @ + Minute],
        polls |-> ps]

Calls == 1..3

Call(c, start_utc, end_utc) ==
    /\ frame[c].pc = "idle"
    /\ frame' = [frame EXCEPT ![c] = EnterCall(c, store_timezone_str,
                                                start_utc, end_utc)]

LoopStep(c) ==
    /\ frame[c].pc = "loop"
    /\ LoopCond(frame[c])
    /\ LET after == LoopBody(frame[c], polls, business_hours_map)
       IN /\ frame' = [frame EXCEPT ![c] = after.locals]
          /\ polls' = after.polls
    /\ UNCHANGED apiVars
    /\ UNCHANGED <<store_timezone_str, hours_query, db_polls,
                   reference_time_utc, business_hours_map, pc, report,
                   window, local_dt, is_open>>

\* the loop ends and the function returns (uptime_minutes, downtime_minutes)
LoopExit(c) ==
    /\ frame[c].pc = "loop"
    /\ ~LoopCond(frame[c])
    /\ frame' = [frame EXCEPT ![c].pc = "returned"]

----------------------------------------------------------------------------
(* Orderings a query with ORDER BY timestamp_utc ASC may return *)

IsSortedByTime(ps) ==
    \A i \in 1..(Len(ps) - 1) : ps[i].timestamp_utc <= ps[i + 1].timestamp_utc

SortedArrangements(rows) ==
    {ps \in [1..Cardinality(rows) -> rows] :
        /\ \A r \in rows : \E i \in 1..Cardinality(rows) : ps[i] = r
        /\ IsSortedByTime(ps)}

PollRow(t, s) == [timestamp_utc |-> t, status |-> s]

SmallSubsets(S, n) == {T \in SUBSET S : Cardinality(T) <= n}

Status == {"active", "inactive"}

----------------------------------------------------------------------------
(* Direct calls of calculate_store_uptime_for_period: two activations on   *)
(* the same arguments, their iterations interleaved                        *)

PeriodCalls == {1, 2}

P0 == At(3, 1, 4, 0)    \* Tuesday 04:00 UTC: Monday 22:00 in Chicago, Tuesday 09:30 in Kolkata

TzNames == {"America/Chicago", "Asia/Kolkata", "Mars/Olympus"}

BH(d, s, e) == [day_of_week |-> d, start_time_local |-> s, end_time_local |-> e]

PeriodHours ==
    { <<>>,
      <<BH(0, TimeOfDay(22, 1), TimeOfDay(2, 0))>>,
      <<BH(1, TimeOfDay(9, 0), TimeOfDay(9, 32))>>,
      <<BH(1, TimeOfDay(9, 0), TimeOfDay(9, 32)),
        BH(0, TimeOfDay(22, 1), TimeOfDay(2, 0))>>,
      <<BH(6, TimeOfDay(1, 0), TimeOfDay(3, 0))>> }

PeriodStarts == {P0, DstStart - Minute}

PeriodPollTimes == {P0 - Minute, P0 + Minute, P0 + Minute + 1}

PeriodPollRows ==
    {PollRow(t, s) : t \in PeriodPollTimes, s \in Status}

InitPeriod ==
    /\ store_timezone_str \in TzNames
    /\ hours_query \in PeriodHours
    /\ business_hours_map = get_business_hours_for_store(hours_query)
    /\ db_polls \in SmallSubsets(PeriodPollRows, MaxPolls)
    /\ polls \in SortedArrangements(db_polls)
    /\ \E s \in PeriodStarts : \E d \in (-1)..(MaxWindow * Minute) :
            window = <<s, s + d>>
    /\ reference_time_utc = 0
    /\ pc = "direct"
    /\ frame = [c \in Calls |-> IdleFrame]
    /\ report = "none"
    /\ local_dt = 0
    /\ is_open = "none"
    /\ ApiIdle

\* the first call gets the window, the second the same window or the one
\* that starts a minute later and ends at the same instant
PeriodWindows(c) ==
    IF c = 1 THEN {window} ELSE {window, <<window[1] + Minute, window[2]>>}

PeriodCall(c) ==
    /\ pc = "direct"
    /\ c \in PeriodCalls
    /\ \E w \in PeriodWindows(c) : Call(c, w[1], w[2])
    /\ UNCHANGED apiVars
    /\ UNCHANGED <<store_timezone_str, hours_query, db_polls,
                   reference_time_utc, business_hours_map, polls, pc, report,
                   window, local_dt, is_open>>

PeriodReturn(c) ==
    /\ pc = "direct"
    /\ LoopExit(c)
    /\ UNCHANGED apiVars
    /\ UNCHANGED <<store_timezone_str, hours_query, db_polls,
                   reference_time_utc, business_hours_map, polls, pc, report,
                   window, local_dt, is_open>>

NextPeriod ==
    \E c \in Calls : PeriodCall(c) \/ LoopStep(c) \/ PeriodReturn(c)

SpecPeriod == InitPeriod /\ [][NextPeriod]_vars

----------------------------------------------------------------------------
(* generate_report_data_for_store *)

\* the three windows end at the reference instant: last hour, day, week
WindowName == <<"hour", "day", "week">>
\* mutant: the week window is 7 hours long
WindowSpanWeekInHours == <<Hour, Day, DaysPerWeek * Hour>>
WindowSpan == <<Hour, Day, Week>>
WindowStart(c, ref) == ref - WindowSpan[c]

\* the poll query: the store's rows from an hour before the week window up to
\* the reference instant
FetchedRows(rows, ref) ==
    LET poll_query_start_time ==
            WindowStart(3, ref) - POLL_FETCH_BUFFER_HOURS * Hour
    IN {r \in rows : /\ r.timestamp_utc >= poll_query_start_time
                     /\ r.timestamp_utc <= ref}

\* round(minutes / 60.0, 2), in hundredths of an hour (5x/3 is never a tie)
RoundHours(minutes) == (10 * minutes + 3) \div 6

\* mutant: the last-hour fields are filled from the last-day call
ReportRecordHourFromDay(hour, day, week) ==
    [uptime_last_hour |-> day.uptime_minutes,
     uptime_last_day |-> RoundHours(day.uptime_minutes),
     uptime_last_week |-> RoundHours(week.uptime_minutes),
     downtime_last_hour |-> day.downtime_minutes,
     downtime_last_day |-> RoundHours(day.downtime_minutes),
     downtime_last_week |-> RoundHours(week.downtime_minutes)]

\* the dict returned
ReportRecord(hour, day, week) ==
    [uptime_last_hour |-> hour.uptime_minutes,
     uptime_last_day |-> RoundHours(day.uptime_minutes),
     uptime_last_week |-> RoundHours(week.uptime_minutes),
     downtime_last_hour |-> hour.downtime_minutes,
     downtime_last_day |-> RoundHours(day.downtime_minutes),
     downtime_last_week |-> RoundHours(week.downtime_minutes)]

\* business hours and polls are loaded
GenerateReportLoad ==
    /\ pc = "report_start"
    /\ business_hours_map' = get_business_hours_for_store(hours_query)
    /\ polls' \in SortedArrangements(FetchedRows(db_polls, reference_time_utc))
    /\ pc' = WindowName[1]
    /\ UNCHANGED apiVars
    /\ UNCHANGED <<store_timezone_str, hours_query, db_polls,
                   reference_time_utc, frame, report, window, local_dt, is_open>>

ReportCall(c) ==
    /\ pc = WindowName[c]
    /\ Call(c, WindowStart(c, reference_time_utc), reference_time_utc)
    /\ UNCHANGED apiVars
    /\ UNCHANGED <<store_timezone_str, hours_query, db_polls,
                   reference_time_utc, business_hours_map, polls, pc, report,
                   window, local_dt, is_open>>

\* the call returns and its totals are bound; the next call is due
ReportReturnFrom(c) ==
    /\ pc = WindowName[c]
    /\ LoopExit(c)
    /\ pc' = IF c < Len(WindowName) THEN WindowName[c + 1] ELSE "assemble"
    /\ UNCHANGED apiVars
    /\ UNCHANGED <<store_timezone_str, hours_query, db_polls,
                   reference_time_utc, business_hours_map, polls, report,
                   window, local_dt, is_open>>

GenerateReportReturn ==
    /\ pc = "assemble"
    /\ report' = ReportRecord(frame[1], frame[2], frame[3])
    /\ pc' = "report_done"
    /\ UNCHANGED apiVars
    /\ UNCHANGED <<store_timezone_str, hours_query, db_polls,
                   reference_time_utc, business_hours_map, polls, frame,
                   window, local_dt, is_open>>

NextReport ==
    \/ GenerateReportLoad
    \/ \E c \in Calls : ReportCall(c) \/ LoopStep(c) \/ ReportReturnFrom(c)
    \/ GenerateReportReturn

\* 09:00-17:00 on every day of the week
NineToFive ==
    [d \in 1..DaysPerWeek |-> BH(d - 1, TimeOfDay(9, 0), TimeOfDay(17, 0))]

RefA == At(3, 2, 16, 0)   \* Wednesday 16:00 UTC: 10:00 in Chicago
RefC == At(4, 0, 13, 30)  \* Monday 13:30 UTC, after DstStart: 08:30 in Chicago

ReportPollRows(ref) ==
    {PollRow(ref - t, s) : t \in {45 * Minute, 2 * Hour}, s \in Status}
    \cup {PollRow(ref - Week - 2 * Hour, "active")}

ReportIdle ==
    /\ business_hours_map = "none"
    /\ polls = <<>>
    /\ pc = "report_start"
    /\ frame = [c \in Calls |-> IdleFrame]
    /\ report = "none"
    /\ window = <<0, 0>>
    /\ local_dt = 0
    /\ is_open = "none"
    /\ ApiIdle

InitReport ==
    /\ store_timezone_str \in KnownZones
    /\ hours_query \in {<<>>, NineToFive}
    /\ reference_time_utc \in {RefA, RefC}
    /\ db_polls \in SmallSubsets(ReportPollRows(reference_time_utc), MaxPolls)
    /\ ReportIdle

SpecReport == InitReport /\ [][NextReport]_vars

\* a store open 24/7 whose only poll is 'active', k minutes before the
\* reference instant
InitLastHour ==
    /\ store_timezone_str \in TzNames
    /\ hours_query = <<>>
    /\ reference_time_utc = RefA
    /\ \E k \in 1..MinutesPerHour :
          db_polls = {PollRow(reference_time_utc - k * Minute, "active")}
    /\ ReportIdle

SpecLastHour == InitLastHour /\ [][NextReport]_vars

\* mutant: an except clause takes the failed call's totals as 0 and goes on
AfterRaiseContinue(c) ==
    IF c < Len(WindowName) THEN WindowName[c + 1] ELSE "assemble"

\* where generate_report_data_for_store is after call c raised: the three
\* calls stand in no try block, so the function is left with the exception
AfterRaise(c) == "report_raised"

\* call c raises in one of its iterations and the exception leaves
\* generate_report_data_for_store
ReportRaise(c) ==
    /\ pc = WindowName[c]
    /\ frame[c].pc = "loop"
    /\ frame' = [frame EXCEPT ![c].pc = "raised"]
    /\ pc' = AfterRaise(c)
    /\ UNCHANGED apiVars
    /\ UNCHANGED <<store_timezone_str, hours_query, db_polls,
                   reference_time_utc, business_hours_map, polls, report,
                   window, local_dt, is_open>>

NextReportRaise ==
    \/ NextReport
    \/ \E c \in Calls : ReportRaise(c)

InitReportRaise ==
    /\ store_timezone_str = DEFAULT_TIMEZONE
    /\ hours_query \in {<<>>, NineToFive}
    /\ reference_time_utc = RefA
    /\ db_polls \in SmallSubsets({PollRow(reference_time_utc - 45 * Minute, "active"),
                                  PollRow(reference_time_utc - 2 * Hour, "inactive")},
                                 MaxPolls)
    /\ ReportIdle

SpecReportRaise == InitReportRaise /\ [][NextReportRaise]_vars

----------------------------------------------------------------------------
(* Direct calls of is_store_open on the map get_business_hours_for_store   *)
(* builds, at every local instant of a week                                *)

OpenHours ==
    { <<>>, <<BH(2, TimeOfDay(9, 0), TimeOfDay(17, 0))>>,
      <<BH(6, TimeOfDay(23, 0), time_min)>> }
    \cup {<<BH(d, TimeOfDay(22, 0), TimeOfDay(2, 0))>> : d \in 0..(DaysPerWeek - 1)}

InitOpen ==
    /\ hours_query \in OpenHours
    /\ local_dt \in Week..(2 * Week - 1)
    /\ business_hours_map = "none"
    /\ is_open = "none"
    /\ pc = "open_call"
    /\ store_timezone_str = DEFAULT_TIMEZONE
    /\ db_polls = {}
    /\ polls = <<>>
    /\ window = <<0, 0>>
    /\ reference_time_utc = 0
    /\ frame = [c \in Calls |-> IdleFrame]
    /\ report = "none"
    /\ ApiIdle

CallIsStoreOpen ==
    /\ pc = "open_call"
    /\ business_hours_map' = get_business_hours_for_store(hours_query)
    /\ is_open' = is_store_open(local_dt, business_hours_map')
    /\ pc' = "open_done"
    /\ UNCHANGED apiVars
    /\ UNCHANGED <<store_timezone_str, hours_query, db_polls,
                   reference_time_utc, polls, frame, report, window, local_dt>>

NextOpen == CallIsStoreOpen

SpecOpen == InitOpen /\ [][NextOpen]_vars

----------------------------------------------------------------------------
(* database.py: sessions and the reports table *)

\* the table with the row of report_id set
AddRow(table, report_id, row) ==
    [i \in DOMAIN table \cup {report_id} |->
        IF i = report_id THEN row ELSE table[i]]

\* db.add and db.flush: the row is in the session's transaction
create_report_record(db, report_id, status) ==
    AddRow(db, report_id, [status |-> status, report_file_path |-> "none"])

\* the UPDATE ... WHERE id = report_id with the values the function collects
update_report_status(table, report_id, status, file_path) ==
    IF report_id \in DOMAIN table
    THEN [table EXCEPT ![report_id] =
            [status |-> status,
             report_file_path |->
                IF file_path # "none" /\ status = "COMPLETE"
                THEN file_path ELSE @.report_file_path]]
    ELSE table

\* .first() of the query by id: the row's columns, found = FALSE for None
get_report_details(table, report_id) ==
    IF report_id \in DOMAIN table
    THEN [found |-> TRUE, status |-> table[report_id].status,
          report_file_path |-> table[report_id].report_file_path]
    ELSE [found |-> FALSE, status |-> "none", report_file_path |-> "none"]

\* get_db, leaving the with block normally: db.commit() makes the rows of the
\* session's transaction the committed ones
Commit(table, db) ==
    [i \in DOMAIN table \cup DOMAIN db |->
        IF i \in DOMAIN db THEN db[i] ELSE table[i]]

\* get_db, left by an exception: db.rollback() for an SQLAlchemyError, and
\* in every case db.close() without commit; the transaction is discarded
CloseWithoutCommit(db) == NoRows

----------------------------------------------------------------------------
(* api.py: trigger_report, one activation per report_id drawn *)

\* lines 49-66: the reference-time check, the store lookup and
\* create_report_record inside the with block; an HTTPException leaves the
\* block without commit
TriggerCreate(r, store_found) ==
    /\ trigger[r].pc = "idle"
    /\ trigger' = [trigger EXCEPT ![r] =
         IF MAX_TIMESTAMP_UTC = <<>>
         THEN [@ EXCEPT !.pc = "done", !.status_code = 500]
         ELSE IF ~store_found
         THEN [@ EXCEPT !.pc = "done", !.status_code = 404,
                        !.db_session = CloseWithoutCommit(@)]
         ELSE [@ EXCEPT !.pc = "created",
                        !.db_session = create_report_record(@, r, "PENDING")]]
    /\ UNCHANGED <<MAX_TIMESTAMP_UTC, reports, task_queue, worker, files,
                   response>>
    /\ UNCHANGED engineVars

\* lines 69-73: generate_report_task.delay puts the task on the broker; the
\* with block is still open
TriggerDispatch(r) ==
    /\ trigger[r].pc = "created"
    /\ task_queue' = task_queue \cup {r}
    /\ trigger' = [trigger EXCEPT ![r].pc = "dispatched"]
    /\ UNCHANGED <<MAX_TIMESTAMP_UTC, reports, worker, files, response>>
    /\ UNCHANGED engineVars

\* delay raises (the broker cannot be reached): not an SQLAlchemyError, so
\* get_db closes the session without commit and the handler's except
\* Exception clause is entered
TriggerDispatchRaises(r) ==
    /\ trigger[r].pc = "created"
    /\ trigger' = [trigger EXCEPT ![r].pc = "except",
                                  ![r].raised = "dispatch",
                                  ![r].db_session = CloseWithoutCommit(@)]
    /\ UNCHANGED <<MAX_TIMESTAMP_UTC, reports, task_queue, worker, files,
                   response>>
    /\ UNCHANGED engineVars

\* the with block ends: get_db commits; line 75 returns the report_id (202)
TriggerCommit(r) ==
    /\ trigger[r].pc = "dispatched"
    /\ reports' = Commit(reports, trigger[r].db_session)
    /\ trigger' = [trigger EXCEPT ![r].pc = "done",
                                  ![r].status_code = 202,
                                  ![r].db_session = NoRows]
    /\ UNCHANGED <<MAX_TIMESTAMP_UTC, task_queue, worker, files, response>>
    /\ UNCHANGED engineVars

\* db.commit() raises an SQLAlchemyError: rollback, close, re-raise
TriggerCommitRaises(r) ==
    /\ trigger[r].pc = "dispatched"
    /\ trigger' = [trigger EXCEPT ![r].pc = "except",
                                  ![r].raised = "commit",
                                  ![r].db_session = CloseWithoutCommit(@)]
    /\ UNCHANGED <<MAX_TIMESTAMP_UTC, reports, task_queue, worker, files,
                   response>>
    /\ UNCHANGED engineVars

\* lines 80-92: a second session looks the record up, marks it FAILED when
\* it finds it and only logs a warning when it does not; 500 is answered
TriggerExcept(r) ==
    /\ trigger[r].pc = "except"
    /\ reports' = IF get_report_details(reports, r).found
                  THEN update_report_status(reports, r, "FAILED", "none")
                  ELSE reports
    /\ trigger' = [trigger EXCEPT ![r].pc = "done", ![r].status_code = 500]
    /\ UNCHANGED <<MAX_TIMESTAMP_UTC, task_queue, worker, files, response>>
    /\ UNCHANGED engineVars

----------------------------------------------------------------------------
(* The background worker (generate_report_task): it takes a dispatched     *)
(* task, marks the report RUNNING, and ends it COMPLETE or FAILED, each    *)
(* through update_report_status in a session of its own                    *)

\* the path of the CSV file written for a report
ReportFilePath(r) == r

WorkerStart(r) ==
    /\ r \in task_queue
    /\ worker[r] = "idle"
    /\ task_queue' = task_queue \ {r}
    /\ worker' = [worker EXCEPT ![r] = "started"]
    /\ UNCHANGED <<MAX_TIMESTAMP_UTC, reports, trigger, files, response>>
    /\ UNCHANGED engineVars

WorkerMarkRunning(r) ==
    /\ worker[r] = "started"
    /\ reports' = update_report_status(reports, r, "RUNNING", "none")
    /\ worker' = [worker EXCEPT ![r] = "running"]
    /\ UNCHANGED <<MAX_TIMESTAMP_UTC, trigger, task_queue, files, response>>
    /\ UNCHANGED engineVars

\* the report is computed and written; file_path is the path written, or
\* "none" when the call passes no path
WorkerComplete(r, file_path) ==
    /\ worker[r] = "running"
    /\ files' = IF file_path # "none" THEN files \cup {file_path} ELSE files
    /\ reports' = update_report_status(reports, r, "COMPLETE", file_path)
    /\ worker' = [worker EXCEPT ![r] = "done"]
    /\ UNCHANGED <<MAX_TIMESTAMP_UTC, trigger, task_queue, response>>
    /\ UNCHANGED engineVars

\* the computation raised
WorkerFail(r) ==
    /\ worker[r] = "running"
    /\ reports' = update_report_status(reports, r, "FAILED", "none")
    /\ worker' = [worker EXCEPT ![r] = "done"]
    /\ UNCHANGED <<MAX_TIMESTAMP_UTC, trigger, task_queue, files, response>>
    /\ UNCHANGED engineVars

\* a report file is removed from the output directory
FileRemoved(path) ==
    /\ path \in files
    /\ files' = files \ {path}
    /\ UNCHANGED <<MAX_TIMESTAMP_UTC, reports, trigger, task_queue, worker,
                   response>>
    /\ UNCHANGED engineVars

----------------------------------------------------------------------------
(* api.py: get_report *)

\* mutant: FAILED is answered like PENDING and RUNNING
get_report_failed_as_running(rec, isfile) ==
    IF ~rec.found
    THEN [status_code |-> 404, content |-> "Report not found"]
    ELSE IF rec.status \in {"PENDING", "RUNNING", "FAILED"}
    THEN [status_code |-> 202, content |-> "running"]
    ELSE IF rec.status = "COMPLETE"
    THEN IF rec.report_file_path # "none" /\ isfile
         THEN [status_code |-> 200, content |-> "csv"]
         ELSE [status_code |-> 500, content |-> "file missing"]
    ELSE [status_code |-> 500, content |-> "unknown status"]

\* lines 110-137: the answer for the row read and for what os.path.isfile
\* says of its path; 200 is the FileResponse of that path
get_report_response(rec, isfile) ==
    IF ~rec.found
    THEN [status_code |-> 404, content |-> "Report not found"]
    ELSE IF rec.status \in {"PENDING", "RUNNING"}
    THEN [status_code |-> 202, content |-> "running"]
    ELSE IF rec.status = "FAILED"
    THEN [status_code |-> 410, content |-> "failed"]
    ELSE IF rec.status = "COMPLETE"
    THEN IF rec.report_file_path # "none" /\ isfile
         THEN [status_code |-> 200, content |-> "csv"]
         ELSE [status_code |-> 500, content |-> "file missing"]
    ELSE [status_code |-> 500, content |-> "unknown status"]

\* one call of get_report(report_id); client_has_id records whether
\* trigger_report had returned this report_id before the call
GetReport(report_id) ==
    /\ LET rec == get_report_details(reports, report_id)
           isfile == rec.report_file_path \in files
           answer == get_report_response(rec, isfile)
       IN response' =
            [report_id |-> report_id,
             client_has_id |-> trigger[report_id].status_code = 202,
             found |-> rec.found, status |-> rec.status,
             file_path |-> rec.report_file_path, isfile |-> isfile,
             status_code |-> answer.status_code, content |-> answer.content]
    /\ UNCHANGED <<MAX_TIMESTAMP_UTC, reports, trigger, task_queue, worker,
                   files>>
    /\ UNCHANGED engineVars

InitApi ==
    /\ MAX_TIMESTAMP_UTC \in {<<>>, <<RefA>>}
    /\ reports = NoRows
    /\ trigger = [r \in ReportIds |-> IdleTrigger]
    /\ task_queue = {}
    /\ worker = [r \in ReportIds |-> "idle"]
    /\ files = {}
    /\ response = NoResponse
    /\ store_timezone_str = DEFAULT_TIMEZONE
    /\ hours_query = <<>>
    /\ db_polls = {}
    /\ reference_time_utc = 0
    /\ business_hours_map = "none"
    /\ polls = <<>>
    /\ pc = "api"
    /\ frame = [c \in Calls |-> IdleFrame]
    /\ report = "none"
    /\ window = <<0, 0>>
    /\ local_dt = 0
    /\ is_open = "none"

NextApi ==
    \E r \in ReportIds :
        \/ \E store_found \in BOOLEAN : TriggerCreate(r, store_found)
        \/ TriggerDispatch(r)
        \/ TriggerDispatchRaises(r)
        \/ TriggerCommit(r)
        \/ TriggerCommitRaises(r)
        \/ TriggerExcept(r)
        \/ WorkerStart(r)
        \/ WorkerMarkRunning(r)
        \/ \E file_path \in {ReportFilePath(r), "none"} :
                WorkerComplete(r, file_path)
        \/ WorkerFail(r)
        \/ FileRemoved(ReportFilePath(r))
        \/ GetReport(r)

SpecApi == InitApi /\ [][NextApi]_vars

----------------------------------------------------------------------------
(* Reference definitions the claims are stated with *)

\* the 1-minute buckets start, start + 1 min, ... before end
Buckets(start_utc, end_utc) ==
    IF end_utc <= start_utc THEN {}
    ELSE {b \in {start_utc + i * Minute :
                    i \in 0..((end_utc - start_utc) \div Minute)} : b < end_utc}

\* index of the last listed poll taken at or before t, 0 when there is none
LatestAtOrBefore(t, ps) ==
    LET q == {i \in 1..Len(ps) : ps[i].timestamp_utc <= t}
    IN IF q = {} THEN 0 ELSE CHOOSE i \in q : \A j \in q : j <= i

CarriedStatus(t, ps) ==
    IF LatestAtOrBefore(t, ps) = 0 THEN "inactive"
    ELSE ps[LatestAtOrBefore(t, ps)].status

OpenAt(b, zone, hours_map) == is_store_open(astimezone(b, zone), hours_map)

Returned(c) == frame[c].pc = "returned"
Active(c) == frame[c].pc \in {"loop", "returned"}

\* C1: at every point of a scan, and so at its return, uptime and downtime are
\* non-negative and add up to the number of buckets scanned so far whose local
\* time is within business hours; closed buckets add to neither total
C1_OpenMinutesConservation ==
    \A c \in Calls : Active(c) =>
        LET f == frame[c]
            scanned == {b \in Buckets(f.interval_start_utc, f.interval_end_utc) :
                           b < f.current_minute_utc}
            opened == {b \in scanned : OpenAt(b, f.store_tz, business_hours_map)}
        IN /\ f.uptime_minutes >= 0
           /\ f.downtime_minutes >= 0
           /\ f.uptime_minutes + f.downtime_minutes = Cardinality(opened)
           /\ Returned(c) =>
                 scanned = Buckets(f.interval_start_utc, f.interval_end_utc)

C1_Witness ==
    \E c \in Calls :
        /\ Returned(c)
        /\ frame[c].uptime_minutes > 0
        /\ frame[c].downtime_minutes > 0
        /\ frame[c].uptime_minutes + frame[c].downtime_minutes
              < Cardinality(Buckets(frame[c].interval_start_utc,
                                    frame[c].interval_end_utc))

\* C2: on a list sorted by timestamp, get_status_at_time(t, polls) is
\* 'inactive' when the list is empty or t is before the first poll, and
\* otherwise the status of the latest poll taken at or before t: for
\* poll_i.time <= t < poll_{i+1}.time it is poll_i.status
ProbeTimes == (P0 - Minute - 1)..(P0 + MaxWindow * Minute)

\* the instants probed: every instant around the polls before any call is
\* made, and afterwards the bucket each running scan is at
Probed ==
    IF \A c \in Calls : frame[c].pc = "idle" THEN ProbeTimes
    ELSE {frame[c].current_minute_utc : c \in {x \in Calls : frame[x].pc = "loop"}}

C2_CarryForward ==
    IsSortedByTime(polls) =>
        \A t \in Probed :
            LET got == get_status_at_time(t, polls)
                n == Len(polls)
            IN /\ (n = 0 \/ (n > 0 /\ t < polls[1].timestamp_utc))
                    => got = "inactive"
               /\ \A i \in 1..n :
                    (/\ polls[i].timestamp_utc <= t
                     /\ (i < n => t < polls[i + 1].timestamp_utc))
                    => got = polls[i].status
               /\ got = CarriedStatus(t, polls)

\* a scan is at a bucket between an 'active' poll and a later poll
C2_Witness ==
    /\ Len(polls) = 2
    /\ polls[1].status = "active"
    /\ \E c \in Calls :
        /\ frame[c].pc = "loop"
        /\ frame[c].uptime_minutes > 0
        /\ polls[1].timestamp_utc <= frame[c].current_minute_utc
        /\ frame[c].current_minute_utc < polls[2].timestamp_utc

\* C3: when the only row of a store is an overnight one (start > end) on day
\* d, the store is open at every local time >= start of day d and at every
\* local time < end of day (d + 1) mod 7, and closed at every time >= end of
\* day (d + 1) mod 7 and at every time < start of day d
C3_OvernightWrap ==
    (/\ pc = "open_done"
     /\ Len(hours_query) = 1
     /\ hours_query[1].start_time_local > hours_query[1].end_time_local)
    => LET d == hours_query[1].day_of_week
           next == (d + 1) % 7
           start_time == hours_query[1].start_time_local
           end_time == hours_query[1].end_time_local
           wd == (local_dt \div Day) % 7
           t == local_dt % Day
       IN /\ (wd = d /\ t >= start_time) => is_open = TRUE
          /\ (wd = next /\ t < end_time) => is_open = TRUE
          /\ (wd = next /\ t >= end_time) => is_open = FALSE
          /\ (wd = d /\ t < start_time) => is_open = FALSE

\* Sunday's overnight row reaches into Monday: Monday 01:00 is open
C3_Witness ==
    /\ pc = "open_done"
    /\ hours_query = <<BH(6, TimeOfDay(22, 0), TimeOfDay(2, 0))>>
    /\ local_dt = At(1, 0, 1, 0)
    /\ is_open = TRUE

\* C4: for a store without business-hours rows, is_store_open on the map
\* get_business_hours_for_store builds is true at every local instant, every
\* day of the week and every time of day
C4_DefaultAlwaysOpen ==
    (pc = "open_done" /\ hours_query = <<>>) => is_open = TRUE

\* the last instant of a Sunday
C4_Witness ==
    /\ pc = "open_done"
    /\ hours_query = <<>>
    /\ local_dt = 2 * Week - 1
    /\ is_open = TRUE

\* C5: the window is half-open: the returned totals are those of the buckets
\* b = start + i min with start <= b < end (start itself included, end never),
\* and they are the totals the same call gives without the polls taken
\* exactly at the end of the window
NotAtEnd(end_utc, ps) ==
    LET keep(p) == p.timestamp_utc # end_utc IN SelectSeq(ps, keep)

C5_HalfOpenWindow ==
    \A c \in Calls : Returned(c) =>
        LET f == frame[c]
            inside == {b \in Buckets(f.interval_start_utc, f.interval_end_utc) :
                          /\ f.interval_start_utc <= b
                          /\ b < f.interval_end_utc
                          /\ OpenAt(b, f.store_tz, business_hours_map)}
            without == NotAtEnd(f.interval_end_utc, polls)
            ups == {b \in inside : get_status_at_time(b, without) = "active"}
        IN /\ f.uptime_minutes = Cardinality(ups)
           /\ f.downtime_minutes = Cardinality(inside \ ups)
           /\ (f.interval_start_utc < f.interval_end_utc
                 /\ OpenAt(f.interval_start_utc, f.store_tz, business_hours_map))
                => f.uptime_minutes + f.downtime_minutes >= 1

\* a returned scan of an always-open store over whole minutes, with an
\* 'active' poll exactly at the end of the window and none before it
C5_Witness ==
    \E c \in Calls :
        /\ Returned(c)
        /\ hours_query = <<>>
        /\ frame[c].interval_end_utc = frame[c].interval_start_utc + Minute
        /\ polls # <<>>
        /\ polls[1] = [timestamp_utc |-> frame[c].interval_end_utc,
                        status |-> "active"]
        /\ frame[c].uptime_minutes = 0
        /\ frame[c].downtime_minutes = 1

\* C9: the period function keeps no state between calls and leaves its inputs
\* alone: the poll list and the hours map stay what the caller built, two
\* returned calls on the same window have the same totals, and every
\* returned call has the totals its own arguments determine, however the
\* calls were interleaved
PollSet(ps) == {ps[i] : i \in 1..Len(ps)}

TotalsOf(start_utc, end_utc, zone, hours_map, ps) ==
    LET opened == {b \in Buckets(start_utc, end_utc) : OpenAt(b, zone, hours_map)}
        ups == {b \in opened : CarriedStatus(b, ps) = "active"}
    IN <<Cardinality(ups), Cardinality(opened \ ups)>>

C9_PureAndOrderIndependent ==
    /\ PollSet(polls) = db_polls
    /\ Len(polls) = Cardinality(db_polls)
    /\ business_hours_map = get_business_hours_for_store(hours_query)
    /\ \A c1, c2 \in Calls :
        (/\ Returned(c1) /\ Returned(c2)
         /\ frame[c1].interval_start_utc = frame[c2].interval_start_utc
         /\ frame[c1].interval_end_utc = frame[c2].interval_end_utc)
        => /\ frame[c1].uptime_minutes = frame[c2].uptime_minutes
           /\ frame[c1].downtime_minutes = frame[c2].downtime_minutes
    /\ \A c \in Calls : Returned(c) =>
        <<frame[c].uptime_minutes, frame[c].downtime_minutes>>
            = TotalsOf(frame[c].interval_start_utc, frame[c].interval_end_utc,
                       ResolveStoreTz(store_timezone_str),
                       get_business_hours_for_store(hours_query),
                       polls)

\* both calls returned, on different windows, after the second call started
\* while the first was in its loop; some minutes were up
C9_Witness ==
    /\ Returned(1) /\ Returned(2)
    /\ frame[1].interval_start_utc # frame[2].interval_start_utc
    /\ frame[1].uptime_minutes > frame[2].uptime_minutes
    /\ frame[2].uptime_minutes > 0

\* C10 (as claimed): over one scan the status lookups look at no more polls
\* than there are polls plus buckets scanned
C10_SingleForwardCursor ==
    \A c \in Calls : Active(c) =>
        frame[c].polls_examined
            <= Len(polls)
               + Cardinality({b \in Buckets(frame[c].interval_start_utc,
                                             frame[c].interval_end_utc) :
                                 b < frame[c].current_minute_utc})

----------------------------------------------------------------------------
(* The last-hour fields of a report *)

LastHourBuckets == Buckets(reference_time_utc - Hour, reference_time_utc)

\* the store's schedule as the rows state it: a row with start <= end covers
\* [start, end) of its day, a row with start > end covers its day from start
\* on and the next day before end; no rows is always open
WithinHours(dt, rows) ==
    LET wd == (dt \div Day) % 7
        t == dt % Day
    IN \/ rows = <<>>
       \/ \E i \in 1..Len(rows) :
            LET r == rows[i]
            IN \/ /\ r.start_time_local <= r.end_time_local
                  /\ wd = r.day_of_week
                  /\ r.start_time_local <= t /\ t < r.end_time_local
               \/ /\ r.start_time_local > r.end_time_local
                  /\ \/ wd = r.day_of_week /\ t >= r.start_time_local
                     \/ wd = (r.day_of_week + 1) % 7 /\ t < r.end_time_local

LastHourOpenAt(b) ==
    WithinHours(astimezone(b, ResolveStoreTz(store_timezone_str)), hours_query)

\* the last-hour call of the report has just returned its totals
LastHourReturned ==
    /\ pc = "day"
    /\ Returned(1)
    /\ frame[2].pc = "idle"

\* C6: for a store without business-hours rows whose only poll is 'active'
\* at ref - k minutes, 0 < k <= 60, the last-hour call returns (k, 60 - k)
\* and the report has uptime_last_hour = k and downtime_last_hour = 60 - k
C6_ScenarioA ==
    (LastHourReturned \/ pc = "report_done") =>
        \A k \in 1..60 :
            (/\ hours_query = <<>>
             /\ db_polls = {PollRow(reference_time_utc - k * Minute, "active")})
            => /\ frame[1].uptime_minutes = k
               /\ frame[1].downtime_minutes = 60 - k
               /\ pc = "report_done" =>
                    /\ report.uptime_last_hour = k
                    /\ report.downtime_last_hour = 60 - k

C6_Witness ==
    /\ pc = "report_done"
    /\ hours_query = <<>>
    /\ db_polls = {PollRow(reference_time_utc - 45 * Minute, "active")}
    /\ report.uptime_last_hour = 45
    /\ report.downtime_last_hour = 15

\* C7: when every bucket of the last-hour window is within business hours
\* and the only poll is an 'inactive' one taken before the window starts, the
\* last-hour call returns (0, 60) and the report has uptime_last_hour = 0 and
\* downtime_last_hour = 60
C7_ScenarioB ==
    (/\ LastHourReturned \/ pc = "report_done"
     /\ Cardinality(db_polls) = 1
     /\ \A p \in db_polls : /\ p.status = "inactive"
                             /\ p.timestamp_utc < reference_time_utc - Hour
     /\ \A b \in LastHourBuckets : LastHourOpenAt(b))
    => /\ frame[1].uptime_minutes = 0
       /\ frame[1].downtime_minutes = 60
       /\ pc = "report_done" =>
            /\ report.uptime_last_hour = 0
            /\ report.downtime_last_hour = 60

\* hours 09:00-17:00 every day, the reference instant at 10:00 local time,
\* the poll two hours before it
C7_Witness ==
    /\ pc = "report_done"
    /\ hours_query = NineToFive
    /\ timeof(astimezone(reference_time_utc,
                          ResolveStoreTz(store_timezone_str))) = TimeOfDay(10, 0)
    /\ db_polls = {PollRow(reference_time_utc - 2 * Hour, "inactive")}
    /\ report.uptime_last_hour = 0
    /\ report.downtime_last_hour = 60

\* C8: when every bucket of the last-hour window is outside business hours,
\* the last-hour call returns (0, 0) and the report has uptime_last_hour = 0
\* and downtime_last_hour = 0 whatever the polls are
C8_ScenarioC ==
    (/\ LastHourReturned \/ pc = "report_done"
     /\ \A b \in LastHourBuckets : ~LastHourOpenAt(b))
    => /\ frame[1].uptime_minutes = 0
       /\ frame[1].downtime_minutes = 0
       /\ pc = "report_done" =>
            /\ report.uptime_last_hour = 0
            /\ report.downtime_last_hour = 0

\* hours 09:00-17:00, the reference instant at 08:30 local time, an 'active'
\* poll carried over the whole window
C8_Witness ==
    /\ pc = "report_done"
    /\ hours_query = NineToFive
    /\ timeof(astimezone(reference_time_utc,
                          ResolveStoreTz(store_timezone_str))) = TimeOfDay(8, 30)
    /\ PollRow(reference_time_utc - 2 * Hour, "active") \in db_polls
    /\ Cardinality(db_polls) = 1
    /\ report.uptime_last_hour = 0
    /\ report.downtime_last_hour = 0
    /\ report.downtime_last_day > 0

----------------------------------------------------------------------------
(* Timezone fallback and polls with one timestamp *)

\* C11: a call whose timezone name pytz does not know still runs and returns;
\* it classifies its buckets in the default zone, America/Chicago, and its
\* totals are the totals of the same window, hours and polls computed in
\* that zone, which is what a call with the default name returns
C11_TimezoneFallback ==
    pytz_timezone(store_timezone_str) = "UnknownTimeZoneError" =>
        \A c \in Calls : Active(c) =>
            /\ frame[c].store_tz = "America/Chicago"
            /\ frame[c].store_tz = ResolveStoreTz(DEFAULT_TIMEZONE)
            /\ Returned(c) =>
                <<frame[c].uptime_minutes, frame[c].downtime_minutes>>
                    = TotalsOf(frame[c].interval_start_utc,
                               frame[c].interval_end_utc,
                               "America/Chicago",
                               get_business_hours_for_store(hours_query),
                               polls)

\* a call with an unknown name returned; the store was open in some of its
\* buckets in Chicago time and would have been closed in all of them in UTC
C11_Witness ==
    /\ store_timezone_str = "Mars/Olympus"
    /\ \E c \in Calls :
        /\ Returned(c)
        /\ frame[c].uptime_minutes > 0
        /\ frame[c].downtime_minutes > 0
        /\ \A b \in Buckets(frame[c].interval_start_utc,
                             frame[c].interval_end_utc) :
               ~is_store_open(b, business_hours_map)

\* C12: when several polls of the list have the same timestamp T, then for
\* every t from T up to the next later poll get_status_at_time(t, polls) is
\* the status of the poll listed last among those with timestamp T
C12_LastOfEqualTimestamps ==
    \A t \in Probed :
        \A j \in 1..Len(polls) :
            (/\ \E i \in 1..(j - 1) :
                    polls[i].timestamp_utc = polls[j].timestamp_utc
             /\ \A k \in (j + 1)..Len(polls) :
                    polls[k].timestamp_utc # polls[j].timestamp_utc
             /\ polls[j].timestamp_utc <= t
             /\ \A k \in 1..Len(polls) :
                    polls[k].timestamp_utc > polls[j].timestamp_utc
                        => t < polls[k].timestamp_utc)
            => get_status_at_time(t, polls) = polls[j].status

\* two polls with one timestamp, 'active' listed before 'inactive', and a
\* returned scan over open buckets after them that counted only downtime
C12_Witness ==
    /\ Len(polls) = 2
    /\ polls[1].timestamp_utc = polls[2].timestamp_utc
    /\ polls[1].status = "active"
    /\ polls[2].status = "inactive"
    /\ \E c \in Calls :
        /\ Returned(c)
        /\ polls[2].timestamp_utc <= frame[c].interval_start_utc
        /\ frame[c].uptime_minutes = 0
        /\ frame[c].downtime_minutes > 1

----------------------------------------------------------------------------
(* The three windows of one report *)

WindowBuckets(c) ==
    Buckets(WindowStart(c, reference_time_utc), reference_time_utc)

\* C14: once the three calls of a report have returned, their minute totals
\* nest, up(hour) <= up(day) <= up(week) and down(hour) <= down(day) <=
\* down(week): the three windows end at the reference instant and every
\* bucket of a shorter window is a bucket of the longer one
C14_WindowsNest ==
    pc \in {"assemble", "report_done"} =>
        /\ \A c \in Calls : frame[c].interval_end_utc = reference_time_utc
        /\ frame[1].uptime_minutes <= frame[2].uptime_minutes
        /\ frame[2].uptime_minutes <= frame[3].uptime_minutes
        /\ frame[1].downtime_minutes <= frame[2].downtime_minutes
        /\ frame[2].downtime_minutes <= frame[3].downtime_minutes
        /\ WindowBuckets(1) \subseteq WindowBuckets(2)
        /\ WindowBuckets(2) \subseteq WindowBuckets(3)

\* a report whose hour, day and week totals differ: more uptime in the day
\* than in the hour, more downtime in the week than in the day
C14_Witness ==
    /\ pc = "report_done"
    /\ 0 < frame[1].uptime_minutes
    /\ frame[1].uptime_minutes < frame[2].uptime_minutes
    /\ 0 < frame[1].downtime_minutes
    /\ frame[1].downtime_minutes < frame[2].downtime_minutes
    /\ frame[2].downtime_minutes < frame[3].downtime_minutes

----------------------------------------------------------------------------
(* A report whose computation raises *)

ReportFields ==
    {"uptime_last_hour", "uptime_last_day", "uptime_last_week",
     "downtime_last_hour", "downtime_last_day", "downtime_last_week"}

\* C13: generate_report_data_for_store returns no partial record: after a
\* window computation raised the function has left with the exception and
\* returned nothing, and a record that was returned was built after all
\* three calls returned and carries all six uptime/downtime fields
C13_NoPartialReport ==
    /\ (\E c \in Calls : frame[c].pc = "raised") <=> pc = "report_raised"
    /\ pc # "report_done" => report = "none"
    /\ pc = "report_done" =>
          /\ \A c \in Calls : Returned(c)
          /\ DOMAIN report = ReportFields
          /\ report = ReportRecord(frame[1], frame[2], frame[3])

\* the hour and day calls returned with minutes counted and the week call
\* raised part-way
C13_Witness ==
    /\ pc = "report_raised"
    /\ Returned(1) /\ Returned(2)
    /\ frame[1].uptime_minutes > 0
    /\ frame[2].downtime_minutes > 0
    /\ frame[3].pc = "raised"
    /\ frame[3].current_minute_utc > frame[3].interval_start_utc

----------------------------------------------------------------------------
(* The report API *)

C16_CommittedBeforeDispatch ==
    /\ \A r \in ReportIds :
          (r \in task_queue \/ worker[r] # "idle") => r \in DOMAIN reports
    /\ response.client_has_id => response.status_code # 404

\* C17 (as claimed): when trigger_report has met an unexpected error after
\* create_report_record and has answered, the report's record exists and
\* its status is FAILED
C17_FailedAfterTriggerError ==
    \A r \in ReportIds :
        (trigger[r].pc = "done" /\ trigger[r].raised # "none")
            => (r \in DOMAIN reports /\ reports[r].status = "FAILED")

====
